---------------------------- MODULE Spec2Model ----------------------------
(***************************************************************************)
(* Exo-OS early boot layer: the Multiboot2 tag walk and the boot entry     *)
(* functions, ACPI table discovery, the musl syscall bridge, and the VGA   *)
(* and keyboard drivers.                                                   *)
(*                                                                         *)
(* Specifications sharing the variables of this module:                    *)
(*   SpecBoot    the boot entry functions and parse_multiboot2             *)
(*   SpecAcpi    acpi_init / acpi_find_rsdp / acpi_find_table              *)
(*   SpecBridge  __syscall0 .. __syscall6 and __syscall_cp                 *)
(*   SpecVga     the VGA text driver of c_compat/vga.c                     *)
(*   SpecKbd     kbd_scancode_to_ascii of c_compat/keyboard.c              *)
(* Each leaves the other subsystems' variables at their idle values.       *)
(***************************************************************************)
EXTENDS Integers, Sequences, FiniteSets, TLC

VARIABLES
    \* ---- boot entry and tag walk ----
    entry,           \* which boot entry function runs
    magic,           \* uint32_t magic argument
    multiboot_info,  \* address argument (0 = null)
    mbi,             \* bytes of memory from the boot-information base on
    layout,          \* history: the tags the bootloader laid out in mbi
    pc,              \* position of the boot entry
    tag,             \* parse_multiboot2: offset of `tag` from the base
    total_size,      \* parse_multiboot2: the local total_size
    visited,         \* history: tags the loop body ran for
    out,             \* history: debug_print messages
    maxRead,         \* history: 1 + highest offset read by parse_multiboot2
    passes,          \* history: parity of the number of passes of the tag loop
    rust,            \* history: Rust entry point control was passed to
    \* ---- ACPI ----
    phys,            \* physical memory: address -> byte (0 where absent)
    fw,              \* history: what the firmware put into phys
    rsdp, rsdt, xsdt,\* the three statics of acpi.c (0 = null)
    acpi_pc,         \* "boot" before acpi_init was called, "ready" after
    acpi_ret,        \* last return value of acpi_init
    found,           \* last return value of acpi_find_table
    asked,           \* signature of the last acpi_find_table call
    rootReads,       \* history: addresses of the root-table entries read in the image
    scanned,         \* history: candidates the last acpi_init tested
    examined,        \* history: entries the last acpi_find_table examined (uint32_t)
    \* ---- syscall bridge ----
    bpc,             \* per caller: "idle", "native", "returned"
    breq,            \* per caller: the bridge entry called and its arguments
    ncalls,          \* per caller: exo_kernel_syscall calls of the invocation
    nret,            \* per caller: value exo_kernel_syscall returned
    bret,            \* per caller: value the bridge entry returned
    overlap,         \* history, per caller: another invocation was in flight during its own
    \* ---- VGA text driver (c_compat/vga.c) ----
    vga_color,       \* uint8_t attribute byte
    vga_row,         \* uint8_t cursor row
    vga_col,         \* uint8_t cursor column
    vga_str,         \* vga_puts: the characters of str not yet put
    vga_char,        \* history: the character of the last vga_putc (-1 = none)
    vga_writes,      \* history: cell index ranges <<lo, hi>> the last call wrote
    \* ---- PS/2 keyboard (c_compat/keyboard.c) ----
    shift_pressed, ctrl_pressed, alt_pressed,   \* the three statics
    kbd_code,        \* history: the scancode of the last call (-1 = none)
    kbd_ret,         \* history: what the last call returned
    held             \* history: shift make codes pressed more recently than released

bootVars == <<entry, magic, multiboot_info, mbi, layout, pc, tag, total_size,
              visited, out, maxRead, passes, rust>>
acpiVars == <<phys, fw, rsdp, rsdt, xsdt, acpi_pc, acpi_ret, found, asked, rootReads,
              scanned, examined>>
bridgeVars == <<bpc, breq, ncalls, nret, bret, overlap>>
vgaVars == <<vga_color, vga_row, vga_col, vga_str, vga_char, vga_writes>>
kbdVars == <<shift_pressed, ctrl_pressed, alt_pressed, kbd_code, kbd_ret, held>>
vars == <<bootVars, acpiVars, bridgeVars, vgaVars, kbdVars>>

\* ------------------------------------------------------------------------
\* Integer helpers (C integer widths)
\* ------------------------------------------------------------------------
\* TLC's integers are 32-bit signed, so a uint32_t is kept as its two 16-bit
\* halves [hi, lo]; arithmetic on it wraps at 2^32 as the C arithmetic does.
Half == 256 * 256

U8(x) == x % 256
U32Of(n) == [lo |-> n % Half, hi |-> n \div Half]
\* the number a uint32_t stands for (below 2^31 only)
Nat32(x) == x.hi * Half + x.lo
\* x + n and x - n in uint32_t arithmetic, for 0 <= n < 2^16
Add32(x, n) == LET l == x.lo + n
               IN [lo |-> l % Half, hi |-> (x.hi + (l \div Half)) % Half]
Sub32(x, n) == IF x.lo >= n THEN [lo |-> x.lo - n, hi |-> x.hi]
               ELSE [lo |-> x.lo + Half - n, hi |-> (x.hi + Half - 1) % Half]
\* x / d for d a power of two below 2^16
Div32(x, d) == [lo |-> (x.lo \div d) + (x.hi % d) * (Half \div d), hi |-> x.hi \div d]

\* the four bytes of a little-endian uint32_t
LE32(v) == << v % 256, (v \div 256) % 256, (v \div 65536) % 256,
              (v \div 16777216) % 256 >>

RECURSIVE Repeat(_, _)
Repeat(b, n) == IF n <= 0 THEN << >> ELSE <<b>> \o Repeat(b, n - 1)

Min(S) == CHOOSE x \in S : \A y \in S : x <= y

\* ------------------------------------------------------------------------
\* Bounds of the model
\* ------------------------------------------------------------------------
MaxTags == 2
MaxLog == MaxTags + 4

\* history logs stop growing at MaxLog entries (a walk that never ends
\* keeps its state finite)
Log(s, e) == IF Len(s) < MaxLog THEN Append(s, e) ELSE s

\* ------------------------------------------------------------------------
\* Multiboot2 (boot/boot.c)
\* ------------------------------------------------------------------------
MULTIBOOT2_MAGIC == 920085129
MULTIBOOT1_MAGIC == 732803074

MULTIBOOT_TAG_TYPE_END == 0
MULTIBOOT_TAG_TYPE_CMDLINE == 1
MULTIBOOT_TAG_TYPE_BOOT_LOADER_NAME == 2
MULTIBOOT_TAG_TYPE_MODULE == 3
MULTIBOOT_TAG_TYPE_BASIC_MEMINFO == 4
MULTIBOOT_TAG_TYPE_MMAP == 6
MULTIBOOT_TAG_TYPE_LOAD_BASE_ADDR == 21

\* byte at offset off of the boot-information memory
MbiByte(off) == mbi[off + 1]
\* *(uint32_t*)(base + off), little-endian
MbiU32(off) == [lo |-> MbiByte(off) + 256 * MbiByte(off + 1),
                hi |-> MbiByte(off + 2) + 256 * MbiByte(off + 3)]
\* struct multiboot_tag fields. A kind of 2^31 or more is kept as 2^31 - 1:
\* the switch names only kinds below 22 and treats every other kind alike.
TagType(off) == LET t == MbiU32(off)
                IN IF t.hi < 32768 THEN Nat32(t) ELSE 32767 * Half + 65535
TagSize(off) == MbiU32(off + 4)

\* (tag->size + 7) & ~7 in uint32_t arithmetic
AlignUp8(size) == LET x == Add32(size, 7) IN [lo |-> x.lo - (x.lo % 8), hi |-> x.hi]


\* ---- the boot-information blocks the model boots with ----
\* One tag as the bootloader lays it out: header, payload, padding to the
\* next 8-byte boundary.
TagBytes(type, size, payload, pad) ==
    LE32(type) \o LE32(size) \o payload \o Repeat(pad, (8 - (Len(payload) % 8)) % 8)

EndTag == [type |-> MULTIBOOT_TAG_TYPE_END, payload |-> << >>, pad |-> 0]

\* payloads: 97.. are letters; a string payload may or may not hold its NUL
TagVariants ==
    { [type |-> MULTIBOOT_TAG_TYPE_CMDLINE, payload |-> <<97, 0>>, pad |-> 0],
      [type |-> MULTIBOOT_TAG_TYPE_CMDLINE,
       payload |-> <<97, 98, 99, 100, 101, 102, 103, 104>>, pad |-> 0],
      [type |-> MULTIBOOT_TAG_TYPE_BOOT_LOADER_NAME, payload |-> <<71, 82, 85, 0>>, pad |-> 0],
      [type |-> MULTIBOOT_TAG_TYPE_BOOT_LOADER_NAME, payload |-> <<71>>, pad |-> 255],
      [type |-> MULTIBOOT_TAG_TYPE_BASIC_MEMINFO, payload |-> <<128, 2, 0, 0, 0, 252, 1, 0>>, pad |-> 0],
      [type |-> MULTIBOOT_TAG_TYPE_MMAP, payload |-> <<24, 0, 0, 0, 0, 0, 0, 0>>, pad |-> 0],
      [type |-> MULTIBOOT_TAG_TYPE_MODULE, payload |-> <<0, 0, 16, 0, 0, 0, 32, 0>>, pad |-> 0],
      [type |-> MULTIBOOT_TAG_TYPE_LOAD_BASE_ADDR, payload |-> <<0, 0, 16, 0>>, pad |-> 0] }

RECURSIVE SeqsUpTo(_, _)
SeqsUpTo(S, n) ==
    IF n = 0 THEN { << >> }
    ELSE LET shorter == SeqsUpTo(S, n - 1)
         IN shorter \cup { Append(s, e) : s \in { t \in shorter : Len(t) = n - 1 }, e \in S }

\* tags t[1..n], the last one declaring `extra` bytes more than it holds
RECURSIVE Serialize(_, _)
Serialize(t, extra) ==
    IF t = << >> THEN << >>
    ELSE LET h == Head(t)
             more == IF Len(t) = 1 THEN extra ELSE 0
         IN TagBytes(h.type, 8 + Len(h.payload) + more, h.payload, h.pad)
            \o Serialize(Tail(t), extra)

\* a tag header declaring size 0xFFFFFFFC: (size + 7) & ~7 wraps to 0
WrapTag == LE32(MULTIBOOT_TAG_TYPE_MODULE) \o << 252, 255, 255, 255 >>

\* what lies in memory behind the block: nothing the block accounts for
Tails ==
    { Repeat(0, 24),
      TagBytes(MULTIBOOT_TAG_TYPE_BASIC_MEMINFO, 8, << >>, 0)
        \o TagBytes(MULTIBOOT_TAG_TYPE_BASIC_MEMINFO, 8, << >>, 0) \o Repeat(0, 8),
      TagBytes(MULTIBOOT_TAG_TYPE_MODULE, 0, << >>, 0)
        \o TagBytes(MULTIBOOT_TAG_TYPE_MODULE, 0, << >>, 0) \o Repeat(0, 8),
      WrapTag \o WrapTag \o Repeat(0, 8) }

\* total_size, reserved, the tags, and the memory behind them
Block(body, tail) == LE32(8 + Len(body)) \o LE32(0) \o body \o tail

\* What the bootloader laid out: the tags before the end tag; whether the end
\* tag lies inside total_size; and, when it does not, how many bytes more than
\* it holds the last tag declares (0: the last tag ends at the bound).
Layouts ==
    { [tags |-> t, ended |-> TRUE, extra |-> 0] : t \in SeqsUpTo(TagVariants, MaxTags) }
    \cup
    { [tags |-> t, ended |-> FALSE, extra |-> x] :
        t \in SeqsUpTo(TagVariants, MaxTags) \ { << >> }, x \in {0, 8} }

NoTags == [tags |-> << >>, ended |-> TRUE, extra |-> 0]

BlockOf(l, tail) ==
    Block(Serialize(IF l.ended THEN Append(l.tags, EndTag) ELSE l.tags, l.extra), tail)

\* ---- parse_multiboot2 ----
\* offset of the first NUL at or after off: where `while (*str)` stops
\* (Len(mbi) when the modelled memory holds none)
RECURSIVE StrEnd(_)
StrEnd(off) ==
    IF off >= Len(mbi) THEN Len(mbi)
    ELSE IF MbiByte(off) = 0 THEN off
    ELSE StrEnd(off + 1)

\* the characters debug_print(str) writes for the string at off
StrBytes(off) == SubSeq(mbi, off + 1, StrEnd(off))

Max2(a, b) == IF a >= b THEN a ELSE b

\* (mutant) the default case reporting the tag
TagMessage_DefaultReported(type) ==
    CASE type = MULTIBOOT_TAG_TYPE_CMDLINE -> "[BOOT] Command line: "
      [] type = MULTIBOOT_TAG_TYPE_BOOT_LOADER_NAME -> "[BOOT] Bootloader: "
      [] type = MULTIBOOT_TAG_TYPE_BASIC_MEMINFO -> "[BOOT] Basic memory info detected\n"
      [] type = MULTIBOOT_TAG_TYPE_MMAP -> "[BOOT] Memory map detected\n"
      [] OTHER -> "[BOOT] Unknown tag\n"

\* the switch of the loop body: the message printed for a tag, and the
\* string read from its payload ("" and no read for the other kinds)
TagMessage(type) ==
    CASE type = MULTIBOOT_TAG_TYPE_CMDLINE -> "[BOOT] Command line: "
      [] type = MULTIBOOT_TAG_TYPE_BOOT_LOADER_NAME -> "[BOOT] Bootloader: "
      [] type = MULTIBOOT_TAG_TYPE_BASIC_MEMINFO -> "[BOOT] Basic memory info detected\n"
      [] type = MULTIBOOT_TAG_TYPE_MMAP -> "[BOOT] Memory map detected\n"
      [] OTHER -> ""

IsStringTag(type) ==
    type \in {MULTIBOOT_TAG_TYPE_CMDLINE, MULTIBOOT_TAG_TYPE_BOOT_LOADER_NAME}

\* (mutant) the advance without the round-up to 8 bytes
NextTag_NoAlign(off) == LET adv == TagSize(off)
                        IN IF adv.hi = 0 THEN off + adv.lo ELSE off + Half

\* tag = (uint8_t*)tag + ((tag->size + 7) & ~7). An advance of 64 KiB or more
\* leaves the modelled memory; the model keeps only that it did.
NextTag(off) == LET adv == AlignUp8(TagSize(off))
                IN IF adv.hi = 0 THEN off + adv.lo ELSE off + Half

\* entry of parse_multiboot2: total_size read, tag set behind the 8-byte header
ParseEnter ==
    /\ total_size' = Nat32(MbiU32(0))
    /\ tag' = 8
    /\ visited' = << >>
    /\ maxRead' = 4
    /\ passes' = 0

\* one pass of the while loop: the tag at `tag` is not the end tag
ParseTag ==
    /\ pc = "parse"
    /\ tag + 8 <= Len(mbi)
    /\ TagType(tag) # MULTIBOOT_TAG_TYPE_END
    /\ LET type == TagType(tag)
           strEnd == IF IsStringTag(type) THEN StrEnd(tag + 8) ELSE 0
       IN /\ strEnd < Len(mbi)
          /\ visited' = Log(visited,
                            [off |-> tag, type |-> type, size |-> TagSize(tag),
                             msg |-> TagMessage(type),
                             str |-> IF IsStringTag(type) THEN StrBytes(tag + 8) ELSE << >>,
                             strEnd |-> strEnd])
          /\ maxRead' = Max2(maxRead, Max2(tag + 8, IF IsStringTag(type) THEN strEnd + 1 ELSE 0))
    /\ tag' = NextTag(tag)
    /\ passes' = 1 - passes
    /\ UNCHANGED <<entry, magic, multiboot_info, mbi, layout, pc, total_size, out, rust>>
    /\ UNCHANGED <<acpiVars, bridgeVars, vgaVars, kbdVars>>

\* the loop condition fails: tag->type is the end tag, parse_multiboot2 returns
\* (it returns void: the caller learns nothing)
ParseEnd ==
    /\ pc = "parse"
    /\ tag + 4 <= Len(mbi)
    /\ TagType(tag) = MULTIBOOT_TAG_TYPE_END
    /\ maxRead' = Max2(maxRead, tag + 4)
    /\ pc' = "jump"
    /\ UNCHANGED <<entry, magic, multiboot_info, mbi, layout, tag, total_size, visited, out,
                   passes, rust>>
    /\ UNCHANGED <<acpiVars, bridgeVars, vgaVars, kbdVars>>


\* ------------------------------------------------------------------------
\* Boot entry functions
\* ------------------------------------------------------------------------
Entries == { "boot_main", "boot_stub_boot_main", "boot_entry",
             "kernel_stub_kernel_main", "kernel_stub_minimal_kernel_main",
             "boot_stub_kernel_main" }
Magics == { MULTIBOOT2_MAGIC, MULTIBOOT1_MAGIC, 0 }
\* the address the bootloader passes when it passes a block
MbiBase == 16 * 65536

BootRest == UNCHANGED <<entry, magic, multiboot_info, mbi, layout>> /\ UNCHANGED <<acpiVars, bridgeVars, vgaVars, kbdVars>>

\* kernel/src/arch/x86_64/boot/boot.c: boot_main up to the call of the parser
boot_main ==
    /\ pc = "entry" /\ entry = "boot_main"
    /\ IF magic # MULTIBOOT2_MAGIC
       THEN /\ out' = out \o << "[ERROR] Invalid Multiboot2 magic number!\n" >>
            /\ pc' = "halt"
            /\ UNCHANGED <<tag, total_size, visited, maxRead, passes>>
       ELSE IF multiboot_info # 0
       THEN /\ out' = out \o << "[BOOT] Multiboot2 magic verified\n",
                               "[BOOT] Multiboot2 info detected\n" >>
            /\ pc' = "parse"
            /\ ParseEnter
       ELSE /\ out' = out \o << "[BOOT] Multiboot2 magic verified\n",
                               "[WARN] No Multiboot2 info provided\n" >>
            /\ pc' = "jump"
            /\ UNCHANGED <<tag, total_size, visited, maxRead, passes>>
    /\ UNCHANGED rust
    /\ BootRest

\* boot_main after the parser: rust_kernel_entry(magic, multiboot_info)
boot_main_jump ==
    /\ pc = "jump" /\ entry = "boot_main"
    /\ out' = out \o << "[BOOT] Jumping to Rust kernel...\n" >>
    /\ rust' = "rust_kernel_entry"
    /\ pc' = "rust"
    /\ UNCHANGED <<tag, total_size, visited, maxRead, passes>>
    /\ BootRest

\* x + y and -x in uint32_t arithmetic
Plus32(x, y) == LET l == x.lo + y.lo
                IN [lo |-> l % Half, hi |-> (x.hi + y.hi + (l \div Half)) % Half]
Neg32(x) == IF x.lo = 0 THEN [lo |-> 0, hi |-> (Half - x.hi) % Half]
            ELSE [lo |-> Half - x.lo, hi |-> Half - 1 - x.hi]

\* kernel/src/arch/x86_64/boot/boot_stub.c: the seven words of
\* multiboot_header[], each as its two 16-bit halves:
\* 0xe85250d6, 0, 32, 0x17adaf12, 0, 0, 8
multiboot_header ==
    << [hi |-> 59474, lo |-> 20694],   \* 0xe852 50d6  magic
       U32Of(0),                       \* architecture
       U32Of(32),                      \* header length
       [hi |-> 6061, lo |-> 44818],    \* 0x17ad af12  checksum
       U32Of(0), U32Of(0), U32Of(8) >> \* end tag

\* kernel/src/arch/x86_64/boot/boot_stub.c: boot_main
boot_stub_boot_main ==
    /\ pc = "entry" /\ entry = "boot_stub_boot_main"
    /\ IF magic # MULTIBOOT2_MAGIC
       THEN pc' = "halt" /\ rust' = rust
       ELSE pc' = "rust" /\ rust' = "_start"
    /\ UNCHANGED <<tag, total_size, visited, out, maxRead, passes>>
    /\ BootRest

\* kernel/src/arch/x86_64/boot.c: boot_entry
boot_entry ==
    /\ pc = "entry" /\ entry = "boot_entry"
    /\ IF magic # MULTIBOOT2_MAGIC
       THEN pc' = "halt" /\ rust' = rust
       ELSE pc' = "rust" /\ rust' = "rust_kernel_main"
    /\ UNCHANGED <<tag, total_size, visited, out, maxRead, passes>>
    /\ BootRest

\* bootloader/kernel_stub.c: kernel_main. On a mismatch it prints [FAIL] and
\* does `goto halt`; the statement labelled halt calls rust_main.
kernel_stub_kernel_main ==
    /\ pc = "entry" /\ entry = "kernel_stub_kernel_main"
    /\ IF magic = MULTIBOOT1_MAGIC
       THEN out' = out \o << " [OK]\n", "[SUCCESS] ", "\n>>> Passing control to Rust kernel...\n" >>
       ELSE out' = out \o << " [FAIL]\n", "\n>>> Passing control to Rust kernel...\n" >>
    /\ rust' = "rust_main"
    /\ pc' = "rust"
    /\ UNCHANGED <<tag, total_size, visited, maxRead, passes>>
    /\ BootRest

\* bootloader/kernel_stub_minimal.c: kernel_main
kernel_stub_minimal_kernel_main ==
    /\ pc = "entry" /\ entry = "kernel_stub_minimal_kernel_main"
    /\ IF magic = MULTIBOOT1_MAGIC
       THEN /\ out' = out \o << "OK", "[C] Calling Rust..." >>
            /\ pc' = "rust" /\ rust' = "rust_main"
       ELSE /\ out' = out \o << "FAIL" >>
            /\ pc' = "halt" /\ rust' = rust
    /\ UNCHANGED <<tag, total_size, visited, maxRead, passes>>
    /\ BootRest

\* boot/boot_stub.c: kernel_main checks nothing and idles
boot_stub_kernel_main ==
    /\ pc = "entry" /\ entry = "boot_stub_kernel_main"
    /\ out' = out \o << "Exo-OS Boot OK" >>
    /\ pc' = "halt"
    /\ UNCHANGED <<tag, total_size, visited, maxRead, passes, rust>>
    /\ BootRest

\* while (1) { hlt }
Hlt ==
    /\ pc = "halt"
    /\ UNCHANGED vars


\* ------------------------------------------------------------------------
\* ACPI (c_compat/acpi.c)
\* ------------------------------------------------------------------------
RSDP_SIGNATURE == << 82, 83, 68, 32, 80, 84, 82, 32 >>      \* "RSD PTR "
FADT_SIGNATURE == << 70, 65, 67, 80 >>                      \* "FACP"
MADT_SIGNATURE == << 65, 80, 73, 67 >>                      \* "APIC"

SizeofRSDP == 20
SizeofACPITableHeader == 36
EBDA_POINTER == 1038
EBDA_LENGTH == 1024
BIOS_AREA_START == 917504
BIOS_AREA_END == 1048576

\* physical memory reads; a byte the image does not set is 0
Read8(a) == IF a \in DOMAIN phys THEN phys[a] ELSE 0
Read16(a) == Read8(a) + 256 * Read8(a + 1)
Read32(a) == [lo |-> Read16(a), hi |-> Read16(a + 2)]
\* a pointer read from a uint32_t or uint64_t field; the modelled images keep
\* every address below 2^31, anything above lies outside them
HighAddress == 32767 * Half
Ptr32(a) == IF Read32(a).hi < 32767 THEN Nat32(Read32(a)) ELSE HighAddress
Ptr64(a) == IF Read32(a + 4) = U32Of(0) THEN Ptr32(a) ELSE HighAddress

\* fields of RSDP / RSDPv2 / ACPITableHeader (packed)
RsdpRevision(p) == Read8(p + 15)
RsdpRsdtAddress(p) == Ptr32(p + 16)
Rsdp2Length(p) == Read32(p + 20)
Rsdp2XsdtAddress(p) == Ptr64(p + 24)
HeaderLength(h) == Read32(h + 4)

\* static uint8_t acpi_checksum(void* ptr, uint32_t length)
RECURSIVE ChecksumFrom(_, _, _, _)
ChecksumFrom(ptr, i, length, sum) ==
    IF i >= length THEN sum
    ELSE ChecksumFrom(ptr, i + 1, length, U8(sum + Read8(ptr + i)))

acpi_checksum(ptr, length) == ChecksumFrom(ptr, 0, Nat32(length), 0)

\* (mutant) a candidate accepted on its signature alone
RsdpCandidateOk_NoChecksum(addr) ==
    \A i \in 0..7 : Read8(addr + i) = RSDP_SIGNATURE[i + 1]

\* the test of one candidate of find_rsdp_range
RsdpCandidateOk(addr) ==
    /\ \A i \in 0..7 : Read8(addr + i) = RSDP_SIGNATURE[i + 1]
    /\ acpi_checksum(addr, U32Of(SizeofRSDP)) = 0

\* static RSDP* find_rsdp_range(uintptr_t start, uintptr_t end): the first
\* addr of start, start + 16, ... below end that passes the test, else null
\* (an address whose byte the image does not set reads 0 and fails the
\* signature test, so only the addresses the image sets are tested)
find_rsdp_range(start, end) ==
    LET addrs == { addr \in DOMAIN phys :
                     addr >= start /\ addr < end /\ (addr - start) % 16 = 0 }
        hits == { addr \in addrs : RsdpCandidateOk(addr) }
    IN IF hits = {} THEN 0 ELSE Min(hits)

\* RSDP* acpi_find_rsdp(void)
acpi_find_rsdp ==
    LET ebda_base == Read16(EBDA_POINTER)
        inEbda == IF ebda_base # 0
                  THEN find_rsdp_range(ebda_base * 16, ebda_base * 16 + EBDA_LENGTH)
                  ELSE 0
    IN IF inEbda # 0 THEN inEbda
       ELSE find_rsdp_range(BIOS_AREA_START, BIOS_AREA_END)

\* (mutant) the scan stepping by one byte instead of 16
ScanSteps_ByByte(start, end, hit) ==
    IF hit # 0 THEN (hit - start) + 1 ELSE end - start

\* passes of the for loop of find_rsdp_range(start, end) that returned hit
ScanSteps(start, end, hit) ==
    IF hit # 0 THEN (hit - start) \div 16 + 1 ELSE (end - start) \div 16

\* candidates acpi_find_rsdp tests in its one or two scans
FindRsdpSteps ==
    LET ebda_base == Read16(EBDA_POINTER)
        inEbda == IF ebda_base # 0
                  THEN find_rsdp_range(ebda_base * 16, ebda_base * 16 + EBDA_LENGTH)
                  ELSE 0
        first == IF ebda_base # 0
                 THEN ScanSteps(ebda_base * 16, ebda_base * 16 + EBDA_LENGTH, inEbda)
                 ELSE 0
    IN IF inEbda # 0 THEN first
       ELSE first + ScanSteps(BIOS_AREA_START, BIOS_AREA_END,
                              find_rsdp_range(BIOS_AREA_START, BIOS_AREA_END))

\* (mutant) a table accepted on its signature alone
TableMatches_NoChecksum(header, signature) ==
    \A i \in 0..3 : Read8(header + i) = signature[i + 1]

\* the test acpi_find_table makes of the table an entry points at
TableMatches(header, signature) ==
    /\ \A i \in 0..3 : Read8(header + i) = signature[i + 1]
    /\ acpi_checksum(header, HeaderLength(header)) = 0

\* i < c for a small number i and a uint32_t c
Below32(i, c) == c.hi > 0 \/ i < c.lo

\* &table->entries[i] and the pointer read from it
EntryAt(root, width, i) == root + SizeofACPITableHeader + width * i
EntryPtr(root, width, i) ==
    IF width = 8 THEN Ptr64(EntryAt(root, width, i)) ELSE Ptr32(EntryAt(root, width, i))

\* the indices below `entries` whose entry has a byte in the image; every
\* other entry reads 0, a null pointer
ImageEntries(root, width, entries) ==
    { i \in { (a - root - SizeofACPITableHeader) \div width :
                a \in { b \in DOMAIN phys : b >= root + SizeofACPITableHeader } } :
        Below32(i, entries) }

\* the for loop of acpi_find_table over a root table with `entries` entries
\* of `width` bytes: it returns at the first i whose table passes the test.
\* [ret |-> the table returned or 0, reads |-> the addresses of the entries
\* read in the image, examined |-> the number of entries examined]
WalkEntries(root, width, entries, signature) ==
    LET inImage == ImageEntries(root, width, entries)
        outside == Min({ i \in 0..Cardinality(inImage) : i \notin inImage })
        hits == { i \in inImage : TableMatches(EntryPtr(root, width, i), signature) }
                \cup (IF Below32(outside, entries) /\ TableMatches(0, signature)
                      THEN { outside } ELSE {})
    IN IF hits = {}
       THEN [ret |-> 0, reads |-> { EntryAt(root, width, i) : i \in inImage },
             examined |-> entries]
       ELSE LET k == Min(hits)
            IN [ret |-> EntryPtr(root, width, k),
                reads |-> { EntryAt(root, width, i) : i \in { m \in inImage : m <= k } },
                examined |-> U32Of(k + 1)]

\* (mutant) the entry count always taken over 4-byte entries
EntryCount_ByFour(root, width) ==
    Div32(Sub32(HeaderLength(root), SizeofACPITableHeader), 4)

\* (table->header.length - sizeof(ACPITableHeader)) / width, in uint32_t
EntryCount(root, width) ==
    Div32(Sub32(HeaderLength(root), SizeofACPITableHeader), width)

\* void* acpi_find_table(const char* signature), on the statics given
FindTable(r, x, signature) ==
    IF r = 0 /\ x = 0 THEN [ret |-> 0, reads |-> {}, examined |-> U32Of(0)]
    ELSE IF x # 0 THEN WalkEntries(x, 8, EntryCount(x, 8), signature)
    ELSE WalkEntries(r, 4, EntryCount(r, 4), signature)

\* (mutant) the extended root pointer adopted on its revision alone
SelectXsdt_NoChecksum(p, x) ==
    IF RsdpRevision(p) >= 2 THEN Rsdp2XsdtAddress(p) ELSE x

\* acpi_init, "Check ACPI version": the value of xsdt after it
SelectXsdt(p, x) ==
    IF RsdpRevision(p) >= 2 /\ acpi_checksum(p, Rsdp2Length(p)) = 0
    THEN Rsdp2XsdtAddress(p) ELSE x

\* (mutant) the RSDT adopted whether or not an XSDT was
SelectRsdt_Always(p, x, r) ==
    IF RsdpRsdtAddress(p) # 0 THEN RsdpRsdtAddress(p) ELSE r

\* acpi_init, "Fallback to RSDT": the value of rsdt after it
SelectRsdt(p, x, r) ==
    IF x = 0 /\ RsdpRsdtAddress(p) # 0 THEN RsdpRsdtAddress(p) ELSE r

\* (mutant) success reported for the 64-bit root table only
InitResult_XsdtOnly(r, x) == IF x # 0 THEN 0 ELSE -1

\* return (rsdt || xsdt) ? 0 : -1
InitResult(r, x) == IF r # 0 \/ x # 0 THEN 0 ELSE -1

\* int acpi_init(void). The history of acpi_find_table starts afresh.
acpi_init ==
    /\ LET p == acpi_find_rsdp
       IN /\ rsdp' = p
          /\ IF p = 0
             THEN /\ acpi_ret' = -1
                  /\ UNCHANGED <<rsdt, xsdt>>
             ELSE LET x == SelectXsdt(p, xsdt)
                      r == SelectRsdt(p, x, rsdt)
                  IN /\ xsdt' = x
                     /\ rsdt' = r
                     /\ acpi_ret' = InitResult(r, x)
    /\ acpi_pc' = "ready"
    /\ found' = 0 /\ asked' = << >> /\ rootReads' = {} /\ examined' = U32Of(0)
    /\ scanned' = FindRsdpSteps
    /\ UNCHANGED <<phys, fw>>
    /\ UNCHANGED <<bootVars, bridgeVars, vgaVars, kbdVars>>

Signatures == { FADT_SIGNATURE, MADT_SIGNATURE }

\* void* acpi_find_table(const char* signature)
acpi_find_table ==
    \E signature \in Signatures :
        LET res == FindTable(rsdt, xsdt, signature)
        IN /\ asked' = signature
           /\ found' = res.ret
           /\ rootReads' = res.reads
           /\ examined' = res.examined
           /\ UNCHANGED <<phys, fw, rsdp, rsdt, xsdt, acpi_pc, acpi_ret, scanned>>
           /\ UNCHANGED <<bootVars, bridgeVars, vgaVars, kbdVars>>

\* ---- the firmware images the model boots on ----
MaxEntries == 2

RECURSIVE SumBytes(_, _)
SumBytes(b, n) == IF n = 0 THEN 0 ELSE (SumBytes(b, n - 1) + b[n]) % 256

\* b with the byte at index at set so that its first n bytes sum to 0 mod 256
\* (ok), or to 1 (a corrupted checksum)
Sealed(b, at, n, ok) ==
    LET z == [b EXCEPT ![at] = 0]
    IN [z EXCEPT ![at] = (256 - SumBytes(z, n) + (IF ok THEN 0 ELSE 1)) % 256]

Place(addr, b) == [a \in addr..(addr + Len(b) - 1) |-> b[a - addr + 1]]

EbdaSegment == 2556 * 16
RsdtAt == 2 * BIOS_AREA_END
XsdtAt == RsdtAt + 256
\* where a root pointer may lie: the last step of the EBDA scan, the first
\* and the last step of the BIOS-area scan, the first KiB of memory, and an
\* address of the BIOS area that is not a multiple of 16
SlotAt == [E |-> EbdaSegment * 16 + EBDA_LENGTH - 16,
           B1 |-> BIOS_AREA_START,
           B2 |-> BIOS_AREA_END - 16,
           L |-> 32,
           U |-> BIOS_AREA_START + 264]
\* the subsystem tables in memory: FACP, a FACP with a bad checksum, APIC,
\* a second FACP, and a FACP whose header declares length 0
TableAt == [TA |-> RsdtAt + 512, TB |-> RsdtAt + 640,
            TC |-> RsdtAt + 768, TD |-> RsdtAt + 896, TZ |-> RsdtAt + 1024]
TableNames == { "TA", "TB", "TC", "TD" }

HeaderBytes(sig, len) ==
    sig \o LE32(len) \o << 1, 0 >> \o << 69, 88, 79, 79, 83, 32 >>
        \o Repeat(32, 8) \o LE32(1) \o LE32(0) \o LE32(0)

TableBytes(sig, body, ok) ==
    LET b == HeaderBytes(sig, SizeofACPITableHeader + Len(body)) \o body
    IN Sealed(b, 10, Len(b), ok)

\* a root table whose header declares `declared` bytes (0: the bytes it has)
RootBytes(sig, body, declared, ok) ==
    IF declared = 0 THEN TableBytes(sig, body, ok)
    ELSE LET b == HeaderBytes(sig, declared) \o body
         IN Sealed(b, 10, IF declared < Len(b) THEN declared ELSE Len(b), ok)

RECURSIVE EntryBytes(_, _)
EntryBytes(names, width) ==
    IF names = << >> THEN << >>
    ELSE LE32(TableAt[Head(names)]) \o (IF width = 8 THEN LE32(0) ELSE << >>)
         \o EntryBytes(Tail(names), width)

\* the root pointer of a firmware: 20 bytes at revision 0, 36 from revision 2
RsdpBytes(f, sumOk) ==
    LET v1 == Sealed(RSDP_SIGNATURE \o << 0 >> \o << 69, 88, 79, 79, 83, 32 >>
                        \o << f.rev >> \o LE32(IF f.hasRsdt THEN RsdtAt ELSE 0),
                     9, SizeofRSDP, sumOk)
        v2 == v1 \o LE32(f.len) \o LE32(IF f.hasXsdt THEN XsdtAt ELSE 0) \o LE32(0)
                 \o << 0, 0, 0, 0 >>
    IN IF f.rev < 2 THEN v1 ELSE Sealed(v2, 33, 36, f.extOk)

SlotImage(f, slot) ==
    IF f.slots[slot] = "none" THEN << >>
    ELSE Place(SlotAt[slot], RsdpBytes(f, f.slots[slot] = "ok"))

Image(f) ==
    Place(EBDA_POINTER, << f.ebda % 256, f.ebda \div 256 >>)
    @@ SlotImage(f, "E") @@ SlotImage(f, "B1") @@ SlotImage(f, "B2")
    @@ SlotImage(f, "L") @@ SlotImage(f, "U")
    @@ Place(RsdtAt, RootBytes(<< 82, 83, 68, 84 >>, EntryBytes(f.rsdtEntries, 4),
                               f.declared, f.rsdtOk))
    @@ Place(XsdtAt, RootBytes(<< 88, 83, 68, 84 >>, EntryBytes(f.xsdtEntries, 8),
                               f.declared, f.xsdtOk))
    @@ Place(TableAt.TA, TableBytes(FADT_SIGNATURE, << 1, 2, 3, 4 >>, TRUE))
    @@ Place(TableAt.TB, TableBytes(FADT_SIGNATURE, << 5, 6, 7, 8 >>, FALSE))
    @@ Place(TableAt.TC, TableBytes(MADT_SIGNATURE, << 9, 10, 11, 12 >>, TRUE))
    @@ Place(TableAt.TD, TableBytes(FADT_SIGNATURE, << 13, 14 >>, TRUE))
    @@ Place(TableAt.TZ, HeaderBytes(FADT_SIGNATURE, 0) \o << 15, 16 >>)

OneRsdp == [E |-> "none", B1 |-> "ok", B2 |-> "none", L |-> "none", U |-> "none"]
Plain == [ebda |-> 0, slots |-> OneRsdp, rev |-> 0, extOk |-> TRUE, len |-> 36,
          hasRsdt |-> TRUE, hasXsdt |-> TRUE, rsdtOk |-> TRUE, xsdtOk |-> TRUE,
          rsdtEntries |-> << "TA" >>, xsdtEntries |-> << "TC" >>, declared |-> 0]

\* where the root pointer lies
PlacementFirmwares ==
    { [Plain EXCEPT !.ebda = e,
                    !.slots = [E |-> se, B1 |-> s1, B2 |-> s2, L |-> sl, U |-> su]] :
        e \in {0, EbdaSegment},
        se \in {"none", "bad", "ok"}, s1 \in {"none", "bad", "ok"},
        s2 \in {"none", "bad", "ok"}, sl \in {"none", "ok"}, su \in {"none", "ok"} }

\* what the root pointer says, and whether the root tables are valid
SelectionFirmwares ==
    { [Plain EXCEPT !.rev = 2, !.extOk = eo, !.len = l, !.hasRsdt = hr, !.hasXsdt = hx,
                    !.rsdtOk = ro, !.xsdtOk = xo] :
        eo \in BOOLEAN, l \in {0, 36}, hr \in BOOLEAN, hx \in BOOLEAN,
        ro \in BOOLEAN, xo \in BOOLEAN }
    \cup
    { [Plain EXCEPT !.hasRsdt = hr, !.rsdtOk = ro] : hr \in BOOLEAN, ro \in BOOLEAN }

\* what the adopted root table lists
EntryFirmwares ==
    { [Plain EXCEPT !.rev = 2, !.extOk = eo, !.rsdtEntries = IF eo THEN << "TA" >> ELSE es,
                    !.xsdtEntries = IF eo THEN es ELSE << "TC" >>] :
        eo \in BOOLEAN, es \in SeqsUpTo(TableNames, MaxEntries) }

\* a root table listing the table of declared length 0
ZeroLengthFirmwares ==
    { [Plain EXCEPT !.rev = r, !.rsdtEntries = es, !.xsdtEntries = es] :
        r \in {0, 2}, es \in { << "TZ" >>, << "TZ", "TA" >>, << "TB", "TZ" >> } }

Firmwares ==
    PlacementFirmwares \cup SelectionFirmwares \cup EntryFirmwares \cup ZeroLengthFirmwares

\* ------------------------------------------------------------------------
\* Idle values of each subsystem's variables
\* ------------------------------------------------------------------------
Callers == { "t1", "t2" }
NoRequest == [fn |-> "none", n |-> 0, args |-> << >>]

BootIdle ==
    /\ entry = "none" /\ magic = 0 /\ multiboot_info = 0
    /\ layout = NoTags /\ mbi = BlockOf(NoTags, Repeat(0, 24))
    /\ pc = "idle" /\ tag = 0 /\ total_size = 0 /\ visited = << >> /\ out = << >>
    /\ maxRead = 0 /\ passes = 0 /\ rust = "none"

AcpiStatics ==
    /\ rsdp = 0 /\ rsdt = 0 /\ xsdt = 0
    /\ acpi_pc = "boot" /\ acpi_ret = 0 /\ found = 0 /\ asked = << >> /\ rootReads = {}
    /\ scanned = 0 /\ examined = U32Of(0)

AcpiIdle == phys = << >> /\ fw = "none" /\ AcpiStatics

BridgeIdle ==
    /\ bpc = [c \in Callers |-> "idle"]
    /\ breq = [c \in Callers |-> NoRequest]
    /\ ncalls = [c \in Callers |-> << >>]
    /\ nret = [c \in Callers |-> 0]
    /\ bret = [c \in Callers |-> 0]
    /\ overlap = [c \in Callers |-> FALSE]

\* vga.c lines 11-13: the initializers of the statics
VgaIdle ==
    /\ vga_color = 15 /\ vga_row = 0 /\ vga_col = 0
    /\ vga_str = << >> /\ vga_char = -1 /\ vga_writes = {}

\* keyboard.c lines 33-35: the initializers of the statics
KbdIdle ==
    /\ shift_pressed = 0 /\ ctrl_pressed = 0 /\ alt_pressed = 0
    /\ kbd_code = -1 /\ kbd_ret = 0 /\ held = {}

\* ------------------------------------------------------------------------
\* SpecBoot
\* ------------------------------------------------------------------------
InitBoot ==
    /\ entry \in Entries
    /\ magic \in Magics
    /\ multiboot_info \in {0, MbiBase}
    /\ layout \in IF entry = "boot_main" /\ magic = MULTIBOOT2_MAGIC /\ multiboot_info # 0
                  THEN Layouts ELSE { NoTags }
    /\ \E tail \in IF layout = NoTags THEN { Repeat(0, 24) } ELSE Tails :
          mbi = BlockOf(layout, tail)
    /\ pc = "entry" /\ tag = 0 /\ total_size = 0 /\ visited = << >> /\ out = << >>
    /\ maxRead = 0 /\ passes = 0 /\ rust = "none"
    /\ AcpiIdle /\ BridgeIdle /\ VgaIdle /\ KbdIdle

NextBoot ==
    \/ boot_main
    \/ ParseTag
    \/ ParseEnd
    \/ boot_main_jump
    \/ boot_stub_boot_main
    \/ boot_entry
    \/ kernel_stub_kernel_main
    \/ kernel_stub_minimal_kernel_main
    \/ boot_stub_kernel_main
    \/ Hlt

SpecBoot == InitBoot /\ [][NextBoot]_vars

\* The processor keeps executing: a step of the boot path that can be taken
\* is taken.
SpecBootLive ==
    /\ SpecBoot
    /\ WF_vars(boot_main) /\ WF_vars(ParseTag) /\ WF_vars(ParseEnd)
    /\ WF_vars(boot_main_jump)


\* ------------------------------------------------------------------------
\* SpecAcpi
\* ------------------------------------------------------------------------
InitAcpi ==
    /\ fw \in Firmwares
    /\ phys = Image(fw)
    /\ AcpiStatics
    /\ BootIdle /\ BridgeIdle /\ VgaIdle /\ KbdIdle

NextAcpi ==
    \/ acpi_init
    \/ acpi_find_table

SpecAcpi == InitAcpi /\ [][NextAcpi]_vars

\* ---- root tables whose header.length is not the length of what they hold ----
\* declared lengths: the true one, below the 36-byte header (20, 35), the
\* header alone (36), and 6 bytes of entries (42: one 4-byte entry, no
\* 8-byte entry)
DeclaredLengths == { 0, 20, 35, 36, 42 }

LengthFirmwares ==
    { [Plain EXCEPT !.rev = r, !.declared = d, !.rsdtEntries = es, !.xsdtEntries = es] :
        r \in {0, 2}, d \in DeclaredLengths,
        es \in { s \in SeqsUpTo({ "TA", "TB", "TC" }, MaxEntries) : Len(s) >= 2 } }

InitAcpiLengths ==
    /\ fw \in LengthFirmwares
    /\ phys = Image(fw)
    /\ AcpiStatics
    /\ BootIdle /\ BridgeIdle /\ VgaIdle /\ KbdIdle

SpecAcpiLengths == InitAcpiLengths /\ [][NextAcpi]_vars

\* ------------------------------------------------------------------------
\* Syscall bridge (posix_x/musl)
\* ------------------------------------------------------------------------
\* exo_syscall_numbers.h: the native numbers
SYS_exo_exit == 1
SYS_exo_spawn == 2
SYS_exo_getpid == 3
SYS_exo_gettid == 4
SYS_exo_open == 10
SYS_exo_close == 11
SYS_exo_read == 12
SYS_exo_write == 13
SYS_exo_lseek == 14
SYS_exo_mmap == 20
SYS_exo_munmap == 21
SYS_exo_mprotect == 22
SYS_exo_brk == 23
SYS_exo_send_msg == 30
SYS_exo_recv_msg == 31
SYS_exo_clock_gettime == 40
SYS_exo_nanosleep == 41
SYS_exo_fork == 50
SYS_exo_execve == 51
SYS_exo_wait4 == 52

\* (mutant) SYS_read defined as the number of write
SYS_read_AsWrite == SYS_exo_write

\* the legacy identifiers
SYS_read == SYS_exo_read
SYS_write == SYS_exo_write
SYS_open == SYS_exo_open
SYS_close == SYS_exo_close
SYS_lseek == SYS_exo_lseek
SYS_mmap == SYS_exo_mmap
SYS_munmap == SYS_exo_munmap
SYS_mprotect == SYS_exo_mprotect
SYS_brk == SYS_exo_brk
SYS_getpid == SYS_exo_getpid
SYS_gettid == SYS_exo_gettid
SYS_exit == SYS_exo_exit
SYS_fork == SYS_exo_fork
SYS_execve == SYS_exo_execve
SYS_wait4 == SYS_exo_wait4
SYS_clock_gettime == SYS_exo_clock_gettime
SYS_nanosleep == SYS_exo_nanosleep
SYS_clone == -1
SYS_vfork == -1
SYS_ptrace == -1

\* the two tables of the header, by identifier
NativeNumber ==
    [ exit |-> SYS_exo_exit, spawn |-> SYS_exo_spawn, getpid |-> SYS_exo_getpid,
      gettid |-> SYS_exo_gettid, open |-> SYS_exo_open, close |-> SYS_exo_close,
      read |-> SYS_exo_read, write |-> SYS_exo_write, lseek |-> SYS_exo_lseek,
      mmap |-> SYS_exo_mmap, munmap |-> SYS_exo_munmap, mprotect |-> SYS_exo_mprotect,
      brk |-> SYS_exo_brk, send_msg |-> SYS_exo_send_msg, recv_msg |-> SYS_exo_recv_msg,
      clock_gettime |-> SYS_exo_clock_gettime, nanosleep |-> SYS_exo_nanosleep,
      fork |-> SYS_exo_fork, execve |-> SYS_exo_execve, wait4 |-> SYS_exo_wait4 ]
LegacyNumber ==
    [ read |-> SYS_read, write |-> SYS_write, open |-> SYS_open, close |-> SYS_close,
      lseek |-> SYS_lseek, mmap |-> SYS_mmap, munmap |-> SYS_munmap,
      mprotect |-> SYS_mprotect, brk |-> SYS_brk, getpid |-> SYS_getpid,
      gettid |-> SYS_gettid, exit |-> SYS_exit, fork |-> SYS_fork,
      execve |-> SYS_execve, wait4 |-> SYS_wait4,
      clock_gettime |-> SYS_clock_gettime, nanosleep |-> SYS_nanosleep,
      clone |-> SYS_clone, vfork |-> SYS_vfork, ptrace |-> SYS_ptrace ]

\* (uint64_t)a for a long a: the 64-bit two's-complement pattern, as four
\* 16-bit limbs, least significant first (|a| < 2^31 in the model)
CastU64(a) ==
    IF a >= 0 THEN << a % Half, a \div Half, 0, 0 >>
    ELSE LET m == (-a) - 1
         IN << Half - 1 - (m % Half), Half - 1 - (m \div Half), Half - 1, Half - 1 >>

\* the long with the bit pattern w (patterns of the model's range only)
AsLong(w) ==
    IF w[4] < 32768 THEN w[1] + Half * w[2]
    ELSE -((Half - 1 - w[1]) + Half * (Half - 1 - w[2])) - 1

\* the call exo_kernel_syscall(num, a1, ..., a6)
NativeCall(num, a1, a2, a3, a4, a5, a6) == [num |-> num, a |-> << a1, a2, a3, a4, a5, a6 >>]
Zero64 == CastU64(0)

\* the call each bridge entry makes, for operation number n and arguments a
syscall0(n, a) == NativeCall(n, Zero64, Zero64, Zero64, Zero64, Zero64, Zero64)
syscall1(n, a) == NativeCall(n, CastU64(a[1]), Zero64, Zero64, Zero64, Zero64, Zero64)
syscall2(n, a) == NativeCall(n, CastU64(a[1]), CastU64(a[2]), Zero64, Zero64, Zero64, Zero64)
\* (mutant) the second and third argument exchanged
syscall3_Swapped(n, a) ==
    NativeCall(n, CastU64(a[1]), CastU64(a[3]), CastU64(a[2]), Zero64, Zero64, Zero64)
syscall3(n, a) ==
    NativeCall(n, CastU64(a[1]), CastU64(a[2]), CastU64(a[3]), Zero64, Zero64, Zero64)
syscall4(n, a) ==
    NativeCall(n, CastU64(a[1]), CastU64(a[2]), CastU64(a[3]), CastU64(a[4]), Zero64, Zero64)
syscall5(n, a) ==
    NativeCall(n, CastU64(a[1]), CastU64(a[2]), CastU64(a[3]), CastU64(a[4]),
               CastU64(a[5]), Zero64)
syscall6(n, a) ==
    NativeCall(n, CastU64(a[1]), CastU64(a[2]), CastU64(a[3]), CastU64(a[4]),
               CastU64(a[5]), CastU64(a[6]))
\* (mutant) the cancellation-point entry losing its sixth argument
syscall_cp_Short(n, a) ==
    NativeCall(n, CastU64(a[1]), CastU64(a[2]), CastU64(a[3]), CastU64(a[4]),
               CastU64(a[5]), Zero64)
syscall_cp(n, a) ==
    NativeCall(n, CastU64(a[1]), CastU64(a[2]), CastU64(a[3]), CastU64(a[4]),
               CastU64(a[5]), CastU64(a[6]))

\* what the model calls the bridge with, and what the kernel may answer
OpNumbers == { SYS_write, SYS_ptrace }
ArgVectors == { << 11, 12, 13, 14, 15, 16 >>, << -1, 0, -2, 70000, -70000, 1 >> }
NativeResults == { 7, -38 }

\* the invocations in flight when caller c enters the bridge overlap with c's,
\* and c's with theirs
Overlaps(c) ==
    [d \in Callers |-> IF d = c THEN \E e \in Callers \ {c} : bpc[e] = "native"
                                ELSE overlap[d] \/ bpc[d] = "native"]

\* (mutant) the call assembled in one static record that every invocation uses
Invoke_SharedRecord(c, fn, n, a, call) ==
    /\ bpc[c] \in {"idle", "returned"}
    /\ breq' = [breq EXCEPT ![c] = [fn |-> fn, n |-> n, args |-> a]]
    /\ ncalls' = [d \in Callers |-> IF d = c \/ bpc[d] = "native" THEN << call >>
                                                                ELSE ncalls[d]]
    /\ bpc' = [bpc EXCEPT ![c] = "native"]
    /\ nret' = [nret EXCEPT ![c] = 0]
    /\ bret' = [bret EXCEPT ![c] = 0]
    /\ overlap' = Overlaps(c)
    /\ UNCHANGED <<bootVars, acpiVars, vgaVars, kbdVars>>

\* caller c enters bridge entry fn with operation number n and arguments a;
\* the entry makes the one call `call` of exo_kernel_syscall. The arguments
\* and the call live in the invocation's own registers: nothing of another
\* invocation is read or written.
Invoke(c, fn, n, a, call) ==
    /\ bpc[c] \in {"idle", "returned"}
    /\ breq' = [breq EXCEPT ![c] = [fn |-> fn, n |-> n, args |-> a]]
    /\ ncalls' = [ncalls EXCEPT ![c] = << call >>]
    /\ bpc' = [bpc EXCEPT ![c] = "native"]
    /\ nret' = [nret EXCEPT ![c] = 0]
    /\ bret' = [bret EXCEPT ![c] = 0]
    /\ overlap' = Overlaps(c)
    /\ UNCHANGED <<bootVars, acpiVars, vgaVars, kbdVars>>

\* the first k arguments of an argument vector
Args(v, k) == SubSeq(v, 1, k)

\* __syscallK_impl of syscall_arch.h calls __syscallK of the bridge
Syscall0 ==
    \E c \in Callers, n \in OpNumbers, v \in ArgVectors :
        Invoke(c, "__syscall0", n, Args(v, 0), syscall0(n, Args(v, 0)))
Syscall1 ==
    \E c \in Callers, n \in OpNumbers, v \in ArgVectors :
        Invoke(c, "__syscall1", n, Args(v, 1), syscall1(n, Args(v, 1)))
Syscall2 ==
    \E c \in Callers, n \in OpNumbers, v \in ArgVectors :
        Invoke(c, "__syscall2", n, Args(v, 2), syscall2(n, Args(v, 2)))
Syscall3 ==
    \E c \in Callers, n \in OpNumbers, v \in ArgVectors :
        Invoke(c, "__syscall3", n, Args(v, 3), syscall3(n, Args(v, 3)))
Syscall4 ==
    \E c \in Callers, n \in OpNumbers, v \in ArgVectors :
        Invoke(c, "__syscall4", n, Args(v, 4), syscall4(n, Args(v, 4)))
Syscall5 ==
    \E c \in Callers, n \in OpNumbers, v \in ArgVectors :
        Invoke(c, "__syscall5", n, Args(v, 5), syscall5(n, Args(v, 5)))
Syscall6 ==
    \E c \in Callers, n \in OpNumbers, v \in ArgVectors :
        Invoke(c, "__syscall6", n, Args(v, 6), syscall6(n, Args(v, 6)))
SyscallCp ==
    \E c \in Callers, n \in OpNumbers, v \in ArgVectors :
        Invoke(c, "__syscall_cp", n, Args(v, 6), syscall_cp(n, Args(v, 6)))

\* return exo_kernel_syscall(...): int64_t to long, the same 64 bits
BridgeResult(r) == r

\* exo_kernel_syscall returns to the bridge entry, which returns to its caller
NativeReturn ==
    \E c \in Callers, r \in NativeResults :
        /\ bpc[c] = "native"
        /\ nret' = [nret EXCEPT ![c] = r]
        /\ bret' = [bret EXCEPT ![c] = BridgeResult(r)]
        /\ bpc' = [bpc EXCEPT ![c] = "returned"]
        /\ UNCHANGED <<breq, ncalls, overlap>>
        /\ UNCHANGED <<bootVars, acpiVars, vgaVars, kbdVars>>

InitBridge == BridgeIdle /\ BootIdle /\ AcpiIdle /\ VgaIdle /\ KbdIdle

NextBridge ==
    \/ Syscall0 \/ Syscall1 \/ Syscall2 \/ Syscall3
    \/ Syscall4 \/ Syscall5 \/ Syscall6 \/ SyscallCp
    \/ NativeReturn

SpecBridge == InitBridge /\ [][NextBridge]_vars

\* ---- the bridge called with each legacy identifier ----
\* musl code written against a legacy identifier: __syscall6(SYS_name, ...)
SyscallLegacy ==
    \E c \in Callers, name \in DOMAIN LegacyNumber :
        LET v == << 11, 12, 13, 14, 15, 16 >>
        IN Invoke(c, "__syscall6", LegacyNumber[name], v, syscall6(LegacyNumber[name], v))

NextNumbers ==
    \/ SyscallLegacy
    \/ NativeReturn

SpecNumbers == InitBridge /\ [][NextNumbers]_vars

\* ------------------------------------------------------------------------
\* VGA text driver (c_compat/vga.c)
\* ------------------------------------------------------------------------
\* The cells of the text buffer at 0xB8000 are written and, by vga_scroll,
\* copied, but no value read from them decides a branch, an index or the
\* cursor: the model keeps which cells each call writes, not their contents.
VGA_WIDTH == 80
VGA_HEIGHT == 25

\* a value stored into a uint8_t
U8Store(x) == x % 256

\* the cells a loop or a store writes, as a range of cell indices
Cells(lo, hi) == { << lo, hi >> }

\* vga_set_color: vga_color = (bg << 4) | (fg & 0x0F), kept in a uint8_t
\* (bg << 4 has no bit of fg & 0x0F, so the | is a sum)
SetColorValue(fg, bg) == U8Store(bg * 16 + (fg % 16))

VgaColorArgs == { << 7, 1 >>, << 255, 255 >> }
vga_set_color ==
    /\ vga_str = << >>
    /\ \E p \in VgaColorArgs : vga_color' = SetColorValue(p[1], p[2])
    /\ vga_writes' = {} /\ vga_char' = -1
    /\ UNCHANGED <<vga_row, vga_col, vga_str>>
    /\ UNCHANGED <<bootVars, acpiVars, bridgeVars, kbdVars>>

\* vga_clear: for (i = 0; i < VGA_WIDTH * VGA_HEIGHT; i++) vga_buffer[i] = blank
ClearWrites == Cells(0, VGA_WIDTH * VGA_HEIGHT - 1)
vga_clear ==
    /\ vga_str = << >>
    /\ vga_writes' = ClearWrites
    /\ vga_row' = 0 /\ vga_col' = 0
    /\ vga_char' = -1
    /\ UNCHANGED <<vga_color, vga_str>>
    /\ UNCHANGED <<bootVars, acpiVars, bridgeVars, kbdVars>>

\* vga_scroll: rows 0 .. VGA_HEIGHT - 2 are written from the row below, then
\* the last row is blanked
ScrollWrites ==
    Cells(0, (VGA_HEIGHT - 2) * VGA_WIDTH + VGA_WIDTH - 1)
        \cup Cells((VGA_HEIGHT - 1) * VGA_WIDTH, (VGA_HEIGHT - 1) * VGA_WIDTH + VGA_WIDTH - 1)

\* vga_putc_at(c, x, y): nothing outside the screen, else the one cell
PutcAtWrites(x, y) ==
    IF x >= VGA_WIDTH \/ y >= VGA_HEIGHT THEN {} ELSE Cells(y * VGA_WIDTH + x, y * VGA_WIDTH + x)

VgaCoords == { 0, 24, 25, 79, 80, 255 }
vga_putc_at ==
    /\ vga_str = << >>
    /\ \E x \in VgaCoords, y \in VgaCoords : vga_writes' = PutcAtWrites(x, y)
    /\ vga_char' = -1
    /\ UNCHANGED <<vga_color, vga_row, vga_col, vga_str>>
    /\ UNCHANGED <<bootVars, acpiVars, bridgeVars, kbdVars>>

\* (mutant) the column wrapped only once it is past the width
ColumnFull_Past(col) == col > VGA_WIDTH
\* if (vga_col >= VGA_WIDTH)
ColumnFull(col) == col >= VGA_WIDTH

\* (vga_col + 8) & ~7, computed in int
TabStop(col) == (col + 8) - ((col + 8) % 8)

\* vga_putc(c) from cursor (col, row): the cursor and the cells written
PutChar(c, col, row) ==
    LET moved ==
            IF c = 10 THEN [col |-> 0, row |-> U8Store(row + 1), w |-> {}]
            ELSE IF c = 13 THEN [col |-> 0, row |-> row, w |-> {}]
            ELSE IF c = 9 THEN [col |-> U8Store(TabStop(col)), row |-> row, w |-> {}]
            ELSE [col |-> U8Store(col + 1), row |-> row, w |-> PutcAtWrites(col, row)]
        wrapped ==
            IF ColumnFull(moved.col)
            THEN [col |-> 0, row |-> U8Store(moved.row + 1), w |-> moved.w]
            ELSE moved
    IN IF wrapped.row >= VGA_HEIGHT
       THEN [col |-> wrapped.col, row |-> VGA_HEIGHT - 1, w |-> wrapped.w \cup ScrollWrites]
       ELSE wrapped

\* '\t', '\n', '\r', 'A' and the character 0
VgaChars == { 9, 10, 13, 65, 0 }
vga_putc ==
    /\ vga_str = << >>
    /\ \E c \in VgaChars :
          LET r == PutChar(c, vga_col, vga_row)
          IN /\ vga_col' = r.col /\ vga_row' = r.row /\ vga_writes' = r.w
             /\ vga_char' = c
    /\ UNCHANGED <<vga_color, vga_str>>
    /\ UNCHANGED <<bootVars, acpiVars, bridgeVars, kbdVars>>

\* the strings vga_puts is called with (without their terminating 0)
VgaStrings == { << >>, << 65, 10 >>, << 9, 65 >>, << 13, 9, 9 >> }

\* vga_puts(str) is entered
vga_puts ==
    /\ vga_str = << >>
    /\ \E str \in VgaStrings : vga_str' = str
    /\ vga_writes' = {} /\ vga_char' = -1
    /\ UNCHANGED <<vga_color, vga_row, vga_col>>
    /\ UNCHANGED <<bootVars, acpiVars, bridgeVars, kbdVars>>

\* one pass of while (*str) vga_putc(*str++)
vga_puts_loop ==
    /\ vga_str # << >>
    /\ LET r == PutChar(Head(vga_str), vga_col, vga_row)
       IN /\ vga_col' = r.col /\ vga_row' = r.row /\ vga_writes' = r.w
          /\ vga_char' = Head(vga_str)
    /\ vga_str' = Tail(vga_str)
    /\ UNCHANGED vga_color
    /\ UNCHANGED <<bootVars, acpiVars, bridgeVars, kbdVars>>

InitVga == VgaIdle /\ KbdIdle /\ BootIdle /\ AcpiIdle /\ BridgeIdle

NextVga ==
    \/ vga_set_color
    \/ vga_clear
    \/ vga_putc_at
    \/ vga_putc
    \/ vga_puts
    \/ vga_puts_loop

SpecVga == InitVga /\ [][NextVga]_vars

\* ------------------------------------------------------------------------
\* PS/2 keyboard (c_compat/keyboard.c)
\* ------------------------------------------------------------------------
\* the 58 initializers of scancode_to_ascii[128], as character codes; the
\* elements without an initializer are 0
AsciiInitializers ==
    << 0, 27, 49, 50, 51, 52, 53, 54, 55, 56, 57, 48, 45, 61, 8,
       9, 113, 119, 101, 114, 116, 121, 117, 105, 111, 112, 91, 93, 10,
       0, 97, 115, 100, 102, 103, 104, 106, 107, 108, 59, 39, 96, 0,
       92, 122, 120, 99, 118, 98, 110, 109, 44, 46, 47, 0, 42, 0, 32 >>
scancode_to_ascii ==
    [i \in 0..127 |-> IF i < Len(AsciiInitializers) THEN AsciiInitializers[i + 1] ELSE 0]

\* the make codes of the two shift keys (0x2A, 0x36), of Ctrl (0x1D) and of Alt (0x38)
ShiftCodes == { 42, 54 }

\* if (c >= 'a' && c <= 'z' && shift_pressed) c -= 32
ShiftedChar(c, shift) == IF c >= 97 /\ c <= 122 /\ shift # 0 THEN c - 32 ELSE c

\* the scancodes the keyboard sends: make and break codes of both shift keys,
\* of Ctrl and of Alt, of the letter a, and the make codes of 1, space and 0x7F
Scancodes == { 42, 54, 170, 182, 29, 157, 56, 184, 30, 158, 2, 57, 127 }

\* the keys the keyboard holds down after sending scancode sc
HeldAfter(sc) ==
    IF sc >= 128 THEN held \ { sc - 128 }
    ELSE IF sc \in ShiftCodes THEN held \cup { sc }
    ELSE held

kbd_scancode_to_ascii ==
    \E scancode \in Scancodes :
        /\ kbd_code' = scancode
        /\ held' = HeldAfter(scancode)
        /\ IF scancode >= 128
           THEN LET released == scancode - 128     \* scancode &= 0x7F
                IN /\ shift_pressed' = IF released \in ShiftCodes THEN 0 ELSE shift_pressed
                   /\ ctrl_pressed' = IF released = 29 THEN 0 ELSE ctrl_pressed
                   /\ alt_pressed' = IF released = 56 THEN 0 ELSE alt_pressed
                   /\ kbd_ret' = 0
           ELSE IF scancode \in ShiftCodes
           THEN /\ shift_pressed' = 1 /\ kbd_ret' = 0
                /\ UNCHANGED <<ctrl_pressed, alt_pressed>>
           ELSE IF scancode = 29
           THEN /\ ctrl_pressed' = 1 /\ kbd_ret' = 0
                /\ UNCHANGED <<shift_pressed, alt_pressed>>
           ELSE IF scancode = 56
           THEN /\ alt_pressed' = 1 /\ kbd_ret' = 0
                /\ UNCHANGED <<shift_pressed, ctrl_pressed>>
           ELSE /\ kbd_ret' = ShiftedChar(scancode_to_ascii[scancode], shift_pressed)
                /\ UNCHANGED <<shift_pressed, ctrl_pressed, alt_pressed>>
        /\ UNCHANGED <<bootVars, acpiVars, bridgeVars, vgaVars>>

InitKbd == KbdIdle /\ VgaIdle /\ BootIdle /\ AcpiIdle /\ BridgeIdle

NextKbd == kbd_scancode_to_ascii

SpecKbd == InitKbd /\ [][NextKbd]_vars

\* ------------------------------------------------------------------------
\* Properties of the boot entries and the tag walk (SpecBoot)
\* ------------------------------------------------------------------------
\* the tags of a layout with the offsets the format gives them
RECURSIVE ExpectedFrom(_, _)
ExpectedFrom(t, off) ==
    IF t = << >> THEN << >>
    ELSE LET n == 8 + Len(Head(t).payload)
         IN << [off |-> off, type |-> Head(t).type, size |-> U32Of(n)] >>
            \o ExpectedFrom(Tail(t), off + ((n + 7) \div 8) * 8)

\* what the walk recorded of each tag: where it was, its kind, its size
Seen == [i \in 1..Len(visited) |->
            [off |-> visited[i].off, type |-> visited[i].type,
             size |-> visited[i].size]]

Parsing == entry = "boot_main" /\ multiboot_info # 0 /\ pc \in {"parse", "jump", "rust"}

\* C1: on a block that ends in an end tag inside total_size, the walk visits
\* exactly the tags before the end tag, in stream order, stops at the end tag,
\* and reads no byte at or beyond base + total_size.
C1_WellFormedWalk ==
    (Parsing /\ layout.ended) =>
        LET exp == ExpectedFrom(layout.tags, 8)
        IN /\ maxRead <= total_size
           /\ Len(visited) <= Len(exp)
           /\ Seen = SubSeq(exp, 1, Len(visited))
           /\ (pc = "parse" /\ Len(visited) = Len(exp))
                 => TagType(tag) = MULTIBOOT_TAG_TYPE_END
           /\ pc # "parse" => Seen = exp

\* a two-tag block whose first string has no NUL was walked to its end tag
C1_Witness ==
    /\ Parsing /\ layout.ended /\ pc = "jump"
    /\ Len(layout.tags) >= 2 /\ Len(visited) = Len(layout.tags)
    /\ visited[1].type = MULTIBOOT_TAG_TYPE_CMDLINE
    /\ visited[1].strEnd >= visited[2].off

\* C2 (as claimed): on a block with no end tag inside total_size whose last
\* tag declares more bytes than the block holds, the walk reads nothing at or
\* beyond base + total_size and does not return as if the stream were complete.
C2_MalformedStreamReported ==
    (Parsing /\ ~layout.ended /\ layout.extra > 0) =>
        /\ maxRead <= total_size
        /\ pc = "parse"

\* C12 (as claimed): the string of a command-line or loader-name tag is read
\* inside the tag only: every byte read for it, the terminating NUL included,
\* lies below tag address + tag size.
C12_StringReadInsideTag ==
    Parsing =>
        \A i \in 1..Len(visited) :
            IsStringTag(visited[i].type) =>
                \/ visited[i].size.hi > 0
                \/ visited[i].strEnd < visited[i].off + visited[i].size.lo

\* the kinds the switch of parse_multiboot2 has a case for, and the end tag
HandledKinds == { MULTIBOOT_TAG_TYPE_END, MULTIBOOT_TAG_TYPE_CMDLINE,
                  MULTIBOOT_TAG_TYPE_BOOT_LOADER_NAME, MULTIBOOT_TAG_TYPE_BASIC_MEMINFO,
                  MULTIBOOT_TAG_TYPE_MMAP }

\* round_up(size, 8) for a size below 2^16 - 8
RoundUp8(n) == ((n + 7) \div 8) * 8

\* where the walk went after the i-th tag it visited (known while the
\* history still holds every tag visited)
AfterVisited(i) == IF i < Len(visited) THEN visited[i + 1].off ELSE tag

\* C13: a tag of a kind the switch has no case for gives no output and no
\* string read, the walk advances by round_up(size, 8) from it, and on a block
\* with an end tag the walk still visits every tag up to that end tag.
C13_UnknownKindSkipped ==
    Parsing =>
        /\ \A i \in 1..Len(visited) :
              visited[i].type \notin HandledKinds =>
                 /\ visited[i].msg = "" /\ visited[i].str = << >> /\ visited[i].strEnd = 0
                 /\ (Len(visited) < MaxLog /\ visited[i].size.hi = 0) =>
                       AfterVisited(i) = visited[i].off + RoundUp8(visited[i].size.lo)
        /\ (layout.ended /\ pc # "parse") => Seen = ExpectedFrom(layout.tags, 8)

\* a load-base-address tag (kind 21, 12 bytes) came first: the walk went 16
\* bytes on, visited the command line behind it and reached the end tag
C13_Witness ==
    /\ Parsing /\ layout.ended /\ pc = "jump"
    /\ Len(visited) = 2
    /\ visited[1].type = MULTIBOOT_TAG_TYPE_LOAD_BASE_ADDR
    /\ visited[1].size = U32Of(12) /\ visited[1].msg = ""
    /\ visited[2].off = visited[1].off + 16
    /\ visited[2].type = MULTIBOOT_TAG_TYPE_CMDLINE

\* C14 (as claimed): the tag walk is finite for every content of the block:
\* once parse_multiboot2 is in its loop, it leaves it.
C14_WalkTerminates == (pc = "parse") ~> (pc # "parse")

\* C3 (as claimed): an entry whose magic differs from the constant it checks
\* halts: it never parses the block and never calls the Rust entry.
ExpectedMagic(e) ==
    IF e \in {"boot_main", "boot_stub_boot_main", "boot_entry"}
    THEN MULTIBOOT2_MAGIC ELSE MULTIBOOT1_MAGIC

C3_BadMagicHalts ==
    (entry # "boot_stub_kernel_main" /\ magic # ExpectedMagic(entry) /\ pc # "entry") =>
        /\ pc = "halt"
        /\ rust = "none"
        /\ maxRead = 0 /\ visited = << >>


\* ------------------------------------------------------------------------
\* Properties of ACPI discovery (SpecAcpi)
\* ------------------------------------------------------------------------
\* the byte-sum of the root pointer over the length it declares is 0
ExtSumZero(f) == SumBytes(RsdpBytes(f, TRUE), f.len) = 0
ExtAdopted(f) == f.rev >= 2 /\ ExtSumZero(f)

TableSig == [TA |-> FADT_SIGNATURE, TB |-> FADT_SIGNATURE,
             TC |-> MADT_SIGNATURE, TD |-> FADT_SIGNATURE, TZ |-> FADT_SIGNATURE]
\* whether the byte-sum of each table over its declared length is 0 (over the
\* declared length 0 of TZ it is the empty sum)
TableOk == [TA |-> TRUE, TB |-> FALSE, TC |-> TRUE, TD |-> TRUE, TZ |-> TRUE]

\* the table the lowest valid entry of names with signature sig points at
FirstValid(names, sig) ==
    LET good == { i \in 1..Len(names) : TableSig[names[i]] = sig /\ TableOk[names[i]] }
    IN IF good = {} THEN 0 ELSE TableAt[names[Min(good)]]

EntryAddrs(root, width, n) ==
    { a \in (root + SizeofACPITableHeader)..(root + SizeofACPITableHeader + width * n - 1) :
        (a - root - SizeofACPITableHeader) % width = 0 }

\* C4: with a revision >= 2 root pointer whose extended checksum is zero and
\* two valid root tables, acpi_init adopts the XSDT only, and acpi_find_table
\* reads XSDT entries only: a table listed only in the RSDT is not found.
C4_XsdtPrecedence ==
    (/\ acpi_pc = "ready" /\ rsdp # 0
     /\ ExtAdopted(fw) /\ fw.hasRsdt /\ fw.hasXsdt /\ fw.rsdtOk /\ fw.xsdtOk) =>
        /\ xsdt = XsdtAt
        /\ rsdt = 0
        /\ rootReads \subseteq EntryAddrs(XsdtAt, 8, Len(fw.xsdtEntries))
        /\ asked # << >> => found = FirstValid(fw.xsdtEntries, asked)

\* FACP, listed in the RSDT only, was asked for and not found in the XSDT
C4_Witness ==
    /\ acpi_pc = "ready" /\ rsdp # 0
    /\ ExtAdopted(fw) /\ fw.hasRsdt /\ fw.hasXsdt /\ fw.rsdtOk /\ fw.xsdtOk
    /\ fw.rsdtEntries = << "TA" >> /\ fw.xsdtEntries = << "TC" >>
    /\ asked = FADT_SIGNATURE /\ found = 0 /\ rootReads = { XsdtAt + SizeofACPITableHeader }

\* C5: with a revision >= 2 root pointer whose extended checksum is not zero
\* and a non-zero 32-bit root-table address, acpi_init returns 0 with the
\* RSDT adopted and the XSDT unset, and acpi_find_table resolves through the
\* 4-byte RSDT entries.
C5_RsdtFallback ==
    (/\ acpi_pc = "ready" /\ rsdp # 0
     /\ fw.rev >= 2 /\ ~ExtSumZero(fw) /\ fw.hasRsdt) =>
        /\ acpi_ret = 0
        /\ rsdt = RsdtAt
        /\ xsdt = 0
        /\ rootReads \subseteq EntryAddrs(RsdtAt, 4, Len(fw.rsdtEntries))
        /\ asked # << >> => found = FirstValid(fw.rsdtEntries, asked)

\* the corrupted root pointer also names a valid XSDT; FACP came from the RSDT
C5_Witness ==
    /\ acpi_pc = "ready" /\ rsdp # 0
    /\ fw.rev >= 2 /\ ~fw.extOk /\ fw.len = 36 /\ fw.hasRsdt /\ fw.hasXsdt /\ fw.xsdtOk
    /\ asked = FADT_SIGNATURE /\ found = TableAt.TA
    /\ rootReads = { RsdtAt + SizeofACPITableHeader }

\* C6: acpi_find_table returns the lowest-index entry of the adopted root
\* table whose signature matches and whose byte-sum is zero; a matching entry
\* with a bad checksum is passed over.
C6_FirstValidMatch ==
    (acpi_pc = "ready" /\ asked # << >> /\ (xsdt # 0 \/ rsdt # 0)) =>
        found = FirstValid(IF xsdt # 0 THEN fw.xsdtEntries ELSE fw.rsdtEntries, asked)

\* the bad FACP came first and the valid one behind it was returned
C6_Witness ==
    /\ acpi_pc = "ready" /\ asked = FADT_SIGNATURE /\ xsdt # 0
    /\ fw.xsdtEntries = << "TB", "TD" >>
    /\ found = TableAt.TD

\* the same two tables in the other order
C6_WitnessValidFirst ==
    /\ acpi_pc = "ready" /\ asked = FADT_SIGNATURE /\ xsdt = 0 /\ rsdt # 0
    /\ fw.rsdtEntries = << "TD", "TB" >>
    /\ found = TableAt.TD


SlotNames == { "E", "B1", "B2", "L", "U" }

\* the lowest address of start, start + 16, ... below end at which the
\* firmware put a root pointer with a good checksum, or 0
FirstPointerIn(f, start, end) ==
    LET c == { SlotAt[n] : n \in { m \in SlotNames :
                 /\ f.slots[m] = "ok"
                 /\ SlotAt[m] >= start /\ SlotAt[m] < end
                 /\ (SlotAt[m] - start) % 16 = 0 } }
    IN IF c = {} THEN 0 ELSE Min(c)

\* C7 (as claimed): acpi_find_rsdp returns the lowest valid candidate of the
\* 1 KiB region at (16-bit value at 0x40E) << 4, else the lowest valid
\* candidate of 0xE0000..0xFFFFF, else null.
C7_FirstCandidate_AsClaimed ==
    acpi_pc = "ready" =>
        rsdp = LET e == FirstPointerIn(fw, fw.ebda * 16, fw.ebda * 16 + EBDA_LENGTH)
               IN IF e # 0 THEN e
                  ELSE FirstPointerIn(fw, BIOS_AREA_START, BIOS_AREA_END)

\* C7 (amended): the 1 KiB region is scanned only when the 16-bit value at
\* 0x40E is not zero; when it is zero, or the region holds no valid candidate,
\* the result is the lowest valid candidate of 0xE0000..0xFFFFF, else null.
\* A candidate with the signature and a bad 20-byte sum is passed over.
C7_FirstCandidate ==
    acpi_pc = "ready" =>
        rsdp = LET e == IF fw.ebda # 0
                        THEN FirstPointerIn(fw, fw.ebda * 16, fw.ebda * 16 + EBDA_LENGTH)
                        ELSE 0
               IN IF e # 0 THEN e
                  ELSE FirstPointerIn(fw, BIOS_AREA_START, BIOS_AREA_END)

\* two candidates with a bad checksum were passed over, in the EBDA and at
\* the start of the BIOS area, and the last address of the BIOS area returned
C7_Witness ==
    /\ acpi_pc = "ready" /\ fw.ebda # 0
    /\ fw.slots.E = "bad" /\ fw.slots.B1 = "bad" /\ fw.slots.B2 = "ok"
    /\ rsdp = SlotAt.B2

\* C8 (as claimed): acpi_init returns -1 when no root pointer is found and
\* when neither root-table form validates, and 0 only with a valid root table
\* adopted.
C8_UnavailableUnlessValid ==
    acpi_pc = "ready" =>
        /\ rsdp = 0 => acpi_ret = -1
        /\ (rsdp # 0 /\ ~ExtAdopted(fw) /\ ~(fw.hasRsdt /\ fw.rsdtOk)) => acpi_ret = -1
        /\ acpi_ret = 0 => \/ xsdt # 0 /\ fw.xsdtOk
                           \/ rsdt # 0 /\ fw.rsdtOk


\* C15 (as claimed): a declared length of 0 is never accepted: acpi_init does
\* not adopt the 64-bit root-table address of a root pointer declaring length
\* 0, and acpi_find_table does not return a table whose header declares
\* length 0.
C15_ZeroLengthRejected ==
    acpi_pc = "ready" =>
        /\ (rsdp # 0 /\ fw.rev >= 2 /\ fw.len = 0) => xsdt = 0
        /\ found # 0 => HeaderLength(found) # U32Of(0)

\* C18: starting from rsdp, rsdt and xsdt all null, after acpi_init at most
\* one of rsdt and xsdt is non-null, and acpi_init returned 0 exactly when one
\* of them is non-null.
C18_RootTablesExclusive ==
    /\ ~(rsdt # 0 /\ xsdt # 0)
    /\ acpi_pc = "boot" => (rsdp = 0 /\ rsdt = 0 /\ xsdt = 0)
    /\ acpi_pc = "ready" => ((acpi_ret = 0) <=> (rsdt # 0 \/ xsdt # 0))

\* the extended root pointer passed its checksum but names no XSDT: the RSDT
\* alone was adopted and acpi_init returned 0
C18_Witness ==
    /\ acpi_pc = "ready" /\ rsdp # 0
    /\ ExtAdopted(fw) /\ ~fw.hasXsdt /\ fw.hasRsdt
    /\ xsdt = 0 /\ rsdt = RsdtAt /\ acpi_ret = 0

\* the root table acpi_find_table walks, its entry width, the entries the
\* firmware put into it and the length its header declares
AdoptedRoot == IF xsdt # 0 THEN xsdt ELSE rsdt
AdoptedWidth == IF xsdt # 0 THEN 8 ELSE 4
AdoptedNames == IF xsdt # 0 THEN fw.xsdtEntries ELSE fw.rsdtEntries
AdoptedLength ==
    IF fw.declared = 0 THEN SizeofACPITableHeader + AdoptedWidth * Len(AdoptedNames)
    ELSE fw.declared

\* (header.length - 36) / entry_width for a length of 36 or more
DeclaredEntries == (AdoptedLength - SizeofACPITableHeader) \div AdoptedWidth

\* the index (from 1) of the first of the first n entries that passes the test
FirstPassing(names, n, sig) ==
    LET good == { i \in 1..n : TableSig[names[i]] = sig /\ TableOk[names[i]] }
    IN IF good = {} THEN 0 ELSE Min(good)

Lookup == acpi_pc = "ready" /\ asked # << >> /\ AdoptedRoot # 0

C20_ShortRootTableEmpty ==
    (Lookup /\ AdoptedLength < SizeofACPITableHeader) =>
        /\ examined = U32Of(0)
        /\ rootReads = {}
        /\ found = 0

\* a <= b for two uint32_t
LessEq32(a, b) == a.hi < b.hi \/ (a.hi = b.hi /\ a.lo <= b.lo)

\* the candidates of the two scanned regions together
MaxScan == EBDA_LENGTH \div 16 + (BIOS_AREA_END - BIOS_AREA_START) \div 16

Arity == [ __syscall0 |-> 0, __syscall1 |-> 1, __syscall2 |-> 2, __syscall3 |-> 3,
           __syscall4 |-> 4, __syscall5 |-> 5, __syscall6 |-> 6 ]

\* C9: for an operation number other than the sentinel, __syscallK calls
\* exo_kernel_syscall exactly once, with n, the K arguments unchanged and in
\* order and 6 - K zeros, and returns what it returned, negative values too.
C9_PureRelay ==
    \A c \in Callers :
        (bpc[c] # "idle" /\ breq[c].fn \in DOMAIN Arity /\ breq[c].n # SYS_ptrace) =>
            /\ Len(ncalls[c]) = 1
            /\ ncalls[c][1].num = breq[c].n
            /\ \A i \in 1..6 :
                 AsLong(ncalls[c][1].a[i]) =
                     IF i <= Arity[breq[c].fn] THEN breq[c].args[i] ELSE 0
            /\ \A i \in 1..Arity[breq[c].fn] :
                 ncalls[c][1].a[i] = CastU64(breq[c].args[i])
            /\ bpc[c] = "returned" => bret[c] = nret[c]

\* __syscall3(SYS_write, -1, 0, -2) came back with the kernel's negative result
C9_Witness ==
    \E c \in Callers :
        /\ bpc[c] = "returned" /\ breq[c].fn = "__syscall3" /\ breq[c].n = SYS_write
        /\ breq[c].args = << -1, 0, -2 >>
        /\ nret[c] < 0 /\ bret[c] = nret[c]

\* C10 (as claimed): for the sentinel -1 of SYS_clone, SYS_vfork and
\* SYS_ptrace every bridge entry returns one fixed negative result whatever
\* the arguments, and exo_kernel_syscall is not called.
C10_SentinelNotForwarded ==
    \A c \in Callers :
        (bpc[c] # "idle" /\ breq[c].n \in {SYS_clone, SYS_vfork, SYS_ptrace}) =>
            /\ ncalls[c] = << >>
            /\ bpc[c] = "returned" =>
                 /\ bret[c] < 0
                 /\ \A d \in Callers :
                      (bpc[d] = "returned" /\ breq[d].n = breq[c].n) => bret[d] = bret[c]

\* C11: __syscall_cp makes the one call __syscall6 makes for the same operation
\* number and arguments, and returns the kernel's result as __syscall6 does;
\* it makes no second call and takes no other step.
C11_CancelPointSameAsSyscall6 ==
    \A c \in Callers :
        (bpc[c] # "idle" /\ breq[c].fn = "__syscall_cp") =>
            /\ ncalls[c] = << syscall6(breq[c].n, breq[c].args) >>
            /\ bpc[c] = "returned" => bret[c] = nret[c]
            /\ \A d \in Callers :
                 (/\ bpc[d] # "idle" /\ breq[d].fn = "__syscall6"
                  /\ breq[d].n = breq[c].n /\ breq[d].args = breq[c].args) =>
                     /\ ncalls[d] = ncalls[c]
                     /\ (bpc[c] = "returned" /\ bpc[d] = "returned" /\ nret[c] = nret[d])
                           => bret[c] = bret[d]

\* one caller went through __syscall_cp and the other through __syscall6 with
\* the same inputs; both came back with the kernel's negative result
C11_Witness ==
    \E c, d \in Callers :
        /\ breq[c].fn = "__syscall_cp" /\ breq[d].fn = "__syscall6"
        /\ breq[c].n = breq[d].n /\ breq[c].args = breq[d].args
        /\ breq[c].args[6] # 0
        /\ bpc[c] = "returned" /\ bpc[d] = "returned"
        /\ nret[c] = nret[d] /\ nret[c] < 0 /\ bret[c] = bret[d]

\* the 7-tuple an invocation hands to exo_kernel_syscall: its own operation
\* number, its own arguments in order, zeros in the places it has no argument for
OwnTuple(req) ==
    [num |-> req.n,
     a |-> [i \in 1..6 |-> IF i <= Len(req.args) THEN CastU64(req.args[i]) ELSE Zero64]]

\* a step in which caller c takes no part leaves c's invocation as it was
Untouched(c) ==
    /\ breq'[c] = breq[c] /\ ncalls'[c] = ncalls[c]
    /\ nret'[c] = nret[c] /\ bret'[c] = bret[c]

\* C21: in every interleaving of the callers' bridge invocations, the call of
\* exo_kernel_syscall an invocation makes carries that invocation's own
\* 7-tuple, the caller gets back the result of its own native call, and no
\* step of one caller changes anything of another caller's invocation.
C21_InvocationsIndependent ==
    /\ [](\A c \in Callers :
            (bpc[c] # "idle" /\ breq[c].n # SYS_ptrace) =>
                /\ ncalls[c] = << OwnTuple(breq[c]) >>
                /\ bpc[c] = "returned" => bret[c] = nret[c])
    /\ [][\A c \in Callers : bpc'[c] = bpc[c] => Untouched(c)]_vars

\* two invocations that were in flight at the same time, through different
\* entries with different arguments, came back with different native results
C21_Witness ==
    \E c, d \in Callers :
        /\ c # d /\ overlap[c] /\ overlap[d]
        /\ bpc[c] = "returned" /\ bpc[d] = "returned"
        /\ breq[c].fn = "__syscall2" /\ breq[d].fn = "__syscall_cp"
        /\ breq[c].args = << 11, 12 >> /\ breq[d].args = << -1, 0, -2, 70000, -70000, 1 >>
        /\ ncalls[c] # ncalls[d]
        /\ nret[c] = 7 /\ bret[c] = 7 /\ nret[d] = -38 /\ bret[d] = -38

\* ------------------------------------------------------------------------
\* Properties of the syscall numbers (SpecNumbers)
\* ------------------------------------------------------------------------
\* the legacy identifiers defined as a native identifier
DirectNames == { name \in DOMAIN LegacyNumber : LegacyNumber[name] # -1 }

\* C17: the 17 directly mapped legacy identifiers have 17 pairwise distinct
\* native numbers, none of them the sentinel -1, and no two native identifiers
\* share a number: the number the kernel receives names one legacy identifier.
C17_MappingOneToOne ==
    /\ Cardinality(DirectNames) = 17
    /\ Cardinality({ LegacyNumber[name] : name \in DirectNames }) = 17
    /\ \A name \in DirectNames :
          /\ LegacyNumber[name] \notin {SYS_clone, SYS_vfork, SYS_ptrace}
          /\ name \in DOMAIN NativeNumber /\ LegacyNumber[name] = NativeNumber[name]
    /\ \A a, b \in DOMAIN NativeNumber : a # b => NativeNumber[a] # NativeNumber[b]
    /\ \A c \in Callers :
          (bpc[c] # "idle" /\ breq[c].n # -1) =>
              Cardinality({ name \in DirectNames :
                              LegacyNumber[name] = ncalls[c][1].num }) = 1

\* one caller asked for SYS_read and the other for SYS_nanosleep: the kernel
\* was called with the two different numbers 12 and 41
C17_Witness ==
    \E c, d \in Callers :
        /\ bpc[c] = "native" /\ bpc[d] = "native"
        /\ breq[c].n = SYS_read /\ breq[d].n = SYS_nanosleep
        /\ ncalls[c][1].num = SYS_exo_read /\ ncalls[d][1].num = SYS_exo_nanosleep

\* ------------------------------------------------------------------------
\* Properties of the boot stub's Multiboot2 header (SpecBoot)
\* ------------------------------------------------------------------------
\* C22 (as claimed): in the image whose entry is boot_stub.c's boot_main, the
\* fourth word of multiboot_header is -(magic + architecture + header_length)
\* modulo 2^32, so the first four words sum to 0 modulo 2^32.
C22_HeaderChecksumZero ==
    (entry = "boot_stub_boot_main" /\ pc # "entry") =>
        LET h == multiboot_header
        IN /\ h[4] = Neg32(Plus32(Plus32(h[1], h[2]), h[3]))
           /\ Plus32(Plus32(Plus32(h[1], h[2]), h[3]), h[4]) = U32Of(0)

\* ------------------------------------------------------------------------
\* Properties of the VGA text driver (SpecVga)
\* ------------------------------------------------------------------------
\* C23: at the return of every vga_clear, vga_set_color, vga_putc and
\* vga_puts call (and of every vga_putc that vga_puts makes), for any
\* characters, newline, carriage return and tab included, vga_col < 80 and
\* vga_row < 25, and every cell the call wrote has an index below 80 * 25.
C23_CursorOnScreen ==
    /\ vga_col >= 0 /\ vga_col < 80
    /\ vga_row >= 0 /\ vga_row < 25
    /\ \A w \in vga_writes : 0 <= w[1] /\ w[1] <= w[2] /\ w[2] < 80 * 25

\* a tab put in the last row at column 72 or beyond: the column wrapped, the
\* row went past the screen and vga_scroll brought it back to the last row
C23_Witness ==
    /\ vga_char = 9 /\ vga_col = 0 /\ vga_row = 24
    /\ << 0, 1919 >> \in vga_writes /\ << 1920, 1999 >> \in vga_writes

\* ------------------------------------------------------------------------
\* Properties of the keyboard driver (SpecKbd)
\* ------------------------------------------------------------------------
\* C24 (as claimed): after any sequence of scancodes, shift_pressed is 1
\* exactly when at least one shift key has been pressed more recently than it
\* was released, and a letter key pressed while a shift key is held is
\* returned in upper case.
C24_ShiftFollowsHeldKeys ==
    /\ (shift_pressed = 1) <=> (held # {})
    /\ (/\ kbd_code \in 0..127
        /\ scancode_to_ascii[kbd_code] \in 97..122
        /\ held # {}) => kbd_ret = scancode_to_ascii[kbd_code] - 32

=============================================================================
